---- MODULE Spec2Model ----
(***************************************************************************)
(* Model of the script templates of ts-templates:                          *)
(*   - Lock  (src/src/Lock.ts): the time-lock template and its minimal     *)
(*     script-number codec (encodeBlockHeight / decodeBlockHeight);        *)
(*   - Sigma (src/unnamed/part_001): the SIGMA signature record, its       *)
(*     segment codec, signer and verifier.                                 *)
(*                                                                         *)
(* Representation.                                                         *)
(*   A byte is an integer 0..255, a hex string a sequence of nibbles       *)
(*   0..15 (two per byte), a script a sequence of chunks [op, data].       *)
(*   A JavaScript number holding an integer is a record [hi, lo] standing  *)
(*   for hi * 65536 + lo with lo in 0..65535: the model checker's          *)
(*   integers are 32 bits wide and the heights of interest are not.        *)
(*   The bitwise operators of JavaScript act on ToInt32 of their operands; *)
(*   they are modelled on 32-bit two's complement integers.                *)
(***************************************************************************)
EXTENDS Integers, Sequences, FiniteSets, TLC

VARIABLES
    args,       \* Lock: the arguments the caller holds (an address and a height, or a serialised script)
    script,     \* Lock: the script object at hand, a sequence of chunks
    origin,     \* Lock: how `script` was made (lock(address, until) or parsed)
    isLockRes,  \* Lock: result of the last Lock.isLock(script), or "unset"
    decoded,    \* Lock: result of the last Lock.decode(script), or "unset"
    sargs,      \* Sigma codec: what the caller holds (a record to write, or a list of segments)
    protocols,  \* Sigma codec: the protocol segments of the BitCom at hand
    written,    \* Sigma codec: the record Sigma.lock() wrote into `protocols`, if any
    sigmas,     \* Sigma codec: result of the last Sigma.decode, or "unset"
    vargs,      \* Sigma verifier: what the caller holds (arguments of sign, or a decoded record)
    curve,      \* Sigma verifier: what the curve arithmetic does on inputs nobody signed
    rec,        \* Sigma verifier: the data of the Sigma object at hand, <<>> before there is one
    lastCall,   \* Sigma verifier: arguments and outcome of the last verifyWithHashes
    checked,    \* Sigma verifier: result of verify() on the record as it is, or "unset"
    uargs,      \* Lock.unlock: the arguments of unlock() and of the signer it returns
    unlockRes   \* Lock.unlock: outcome of the last call of the signer, or "unset"

lockVars == <<args, script, origin, isLockRes, decoded>>
codecVars == <<sargs, protocols, written, sigmas>>
verifyVars == <<vargs, curve, rec, lastCall, checked>>
unlockVars == <<uargs, unlockRes>>
vars == <<lockVars, codecVars, verifyVars, unlockVars>>

----------------------------------------------------------------------------
(* JavaScript numbers and 32-bit integer operators                         *)

B16 == 256 * 256

\* the JavaScript number hi * 65536 + lo
Num(hi, lo) == [hi |-> hi, lo |-> lo]

\* a 32-bit integer as a JavaScript number
NumOfInt(i) == Num(i \div B16, i % B16)

\* n > 0, n < 0, n === 0 on numbers
NumGT0(n) == n.hi > 0 \/ (n.hi = 0 /\ n.lo > 0)
NumLT0(n) == n.hi < 0
NumIsZero(n) == n.hi = 0 /\ n.lo = 0

\* unary minus
NumNeg(n) == IF n.lo = 0 THEN Num(-n.hi, 0) ELSE Num(-n.hi - 1, B16 - n.lo)

\* ToInt32: the number modulo 2^32, read as a signed 32-bit integer
ToInt32(n) ==
    LET h == n.hi % B16
    IN  IF h >= 32768 THEN (h - B16) * B16 + n.lo ELSE h * B16 + n.lo

\* whether the number is a 32-bit integer already
IsInt32(n) == n.hi >= -32768 /\ n.hi < 32768

RECURSIVE Pow2(_)
Pow2(k) == IF k = 0 THEN 1 ELSE 2 * Pow2(k - 1)

\* a | b on 32-bit integers
RECURSIVE Or32(_, _)
Or32(a, b) ==
    IF a = 0 THEN b
    ELSE IF b = 0 THEN a
    ELSE IF a = -1 \/ b = -1 THEN -1
    ELSE 2 * Or32(a \div 2, b \div 2) + (IF a % 2 = 1 \/ b % 2 = 1 THEN 1 ELSE 0)

\* a & b on 32-bit integers
RECURSIVE And32(_, _)
And32(a, b) ==
    IF a = 0 \/ b = 0 THEN 0
    ELSE IF a = -1 THEN b
    ELSE IF b = -1 THEN a
    ELSE 2 * And32(a \div 2, b \div 2) + (IF a % 2 = 1 /\ b % 2 = 1 THEN 1 ELSE 0)

\* ~a on 32-bit integers
Not32(a) == (-1) - a

\* a << s on 32-bit integers: the shift count is taken modulo 32
Shl32(a, s) ==
    LET c == s % 32
    IN  IF c = 0 THEN a
        ELSE LET m  == Pow2(32 - c)
                 lo == a % m
             IN  IF lo >= m \div 2 THEN (lo - m) * Pow2(c) ELSE lo * Pow2(c)

----------------------------------------------------------------------------
(* Hex strings, byte arrays and script serialisation (@bsv/sdk)            *)

\* String.prototype.slice(a, b) for 0 <= a, 0 <= b
Slice(s, a, b) ==
    LET e == IF b > Len(s) THEN Len(s) ELSE b
    IN  IF a >= e THEN <<>> ELSE SubSeq(s, a + 1, e)

StartsWith(s, p) == Len(p) <= Len(s) /\ SubSeq(s, 1, Len(p)) = p
EndsWith(s, p) == Len(p) <= Len(s) /\ SubSeq(s, Len(s) - Len(p) + 1, Len(s)) = p

\* n bytes b
Bytes(n, b) == [i \in 1..n |-> b]

\* Utils.toHex: two nibbles per byte
RECURSIVE BytesToHex(_)
BytesToHex(bs) ==
    IF bs = <<>> THEN <<>>
    ELSE <<Head(bs) \div 16, Head(bs) % 16>> \o BytesToHex(Tail(bs))

\* Utils.toArray(hex, 'hex'): an odd-length string is padded with a leading 0
RECURSIVE HexPairs(_)
HexPairs(h) ==
    IF Len(h) < 2 THEN <<>>
    ELSE <<16 * h[1] + h[2]>> \o HexPairs(SubSeq(h, 3, Len(h)))

HexToArray(h) == IF Len(h) % 2 = 1 THEN HexPairs(<<0>> \o h) ELSE HexPairs(h)

\* parseInt(h, 16) of a hex string of at most two digits
ParseInt16(h) == IF Len(h) = 1 THEN h[1] ELSE 16 * h[1] + h[2]

\* a script chunk: an opcode and its pushed data (<<>> when it pushes none)
Chunk(op, data) == [op |-> op, data |-> data]

\* Script.toBinary of one chunk: opcodes 1..75 are followed by their data,
\* OP_PUSHDATA1 (76) by a length byte and the data
ChunkBytes(c) ==
    IF c.op = 76 THEN <<76, Len(c.data)>> \o c.data
    ELSE <<c.op>> \o c.data

RECURSIVE toBinary(_)
toBinary(chunks) ==
    IF chunks = <<>> THEN <<>>
    ELSE ChunkBytes(Head(chunks)) \o toBinary(Tail(chunks))

\* Script.toHex
toHex(chunks) == BytesToHex(toBinary(chunks))

\* Script.fromBinary: opcodes 1..75 push that many bytes (fewer at the end of
\* a truncated script), OP_PUSHDATA1 reads a length byte first
RECURSIVE fromBinary(_)
fromBinary(bs) ==
    IF bs = <<>> THEN <<>>
    ELSE LET op == Head(bs)
             rest == Tail(bs)
         IN  IF op >= 1 /\ op <= 75
             THEN <<Chunk(op, Slice(rest, 0, op))>> \o fromBinary(Slice(rest, op, Len(rest)))
             ELSE IF op = 76 /\ rest # <<>>
             THEN LET n == Head(rest)
                      r2 == Tail(rest)
                  IN  <<Chunk(op, Slice(r2, 0, n))>> \o fromBinary(Slice(r2, n, Len(r2)))
             ELSE <<Chunk(op, <<>>)>> \o fromBinary(rest)

\* Script.fromHex
fromHex(h) == fromBinary(HexToArray(h))

----------------------------------------------------------------------------
(* Lock.ts                                                                 *)

\* '20d37f4de0d1c735b4d51a5572df0f3d9104d1d9e99db8694fdd1b1a92e1f0dce1757601687f76a9'
LOCK_PREFIX ==
    <<2,0, 13,3, 7,15, 4,13, 14,0, 13,1, 12,7, 3,5, 11,4, 13,5, 1,10, 5,5,
      7,2, 13,15, 0,15, 3,13, 9,1, 0,4, 13,1, 13,9, 14,9, 9,13, 11,8, 6,9,
      4,15, 13,13, 1,11, 1,10, 9,2, 14,1, 15,0, 13,12, 14,1,
      7,5, 7,6, 0,1, 6,8, 7,15, 7,6, 10,9>>

\* '88ac7e7601207f75a9011488'
LOCK_SUFFIX ==
    <<8,8, 10,12, 7,14, 7,6, 0,1, 2,0, 7,15, 7,5, 10,9, 0,1, 1,4, 8,8>>

\* Lock.encodeBlockHeight: the while loop; n & 0xff and n >>= 8 act on ToInt32(n)
RECURSIVE encodeLoop(_, _)
encodeLoop(n, bytes) ==
    IF NumGT0(n)
    THEN encodeLoop(NumOfInt(ToInt32(n) \div 256), Append(bytes, ToInt32(n) % 256))
    ELSE bytes

\* signBytes without the extra byte that keeps a set top bit from reading as a sign
signBytes_noExtraByte(bytes, negative) ==
    IF negative
    THEN [bytes EXCEPT ![Len(bytes)] = Or32(@, 128)]
    ELSE bytes

\* Lock.encodeBlockHeight: the sign handling after the loop
signBytes(bytes, negative) ==
    IF And32(bytes[Len(bytes)], 128) # 0
    THEN Append(bytes, IF negative THEN 128 ELSE 0)
    ELSE IF negative
    THEN [bytes EXCEPT ![Len(bytes)] = Or32(@, 128)]
    ELSE bytes

\* Lock.encodeBlockHeight(height): the chunks of the height
encodeBlockHeight(height) ==
    IF NumIsZero(height) THEN <<Chunk(0, <<>>)>>
    ELSE IF height.hi = 0 /\ height.lo >= 1 /\ height.lo <= 16
    THEN <<Chunk(80 + height.lo, <<>>)>>
    ELSE IF height = NumOfInt(-1) THEN <<Chunk(79, <<>>)>>
    ELSE LET negative == NumLT0(height)
             n == IF negative THEN NumNeg(height) ELSE height
             bytes == signBytes(encodeLoop(n, <<>>), negative)
         IN  <<Chunk(Len(bytes), bytes)>>

\* Lock.decodeBlockHeight: result |= bytes[i] << (8 * i) for i = 0 .. length-1
RECURSIVE decodeLoop(_, _, _)
decodeLoop(bytes, i, result) ==
    IF i > Len(bytes) THEN result
    ELSE decodeLoop(bytes, i + 1, Or32(result, Shl32(bytes[i], 8 * (i - 1))))

\* Lock.decodeBlockHeight(hex)
decodeBlockHeight(hex) ==
    IF Len(hex) = 0 THEN NumOfInt(0)
    ELSE LET opcode == ParseInt16(Slice(hex, 0, 2))
         IN  IF opcode = 0 THEN NumOfInt(0)
             ELSE IF opcode >= 81 /\ opcode <= 96 THEN NumOfInt(opcode - 80)
             ELSE IF opcode = 79 THEN NumOfInt(-1)
             ELSE LET dataHex == Slice(hex, 2, 2 + opcode * 2)
                      bytes == HexToArray(dataHex)
                      result == decodeLoop(bytes, 1, 0)
                  IN  IF Len(bytes) = 0 THEN NumOfInt(0)
                      ELSE IF And32(bytes[Len(bytes)], 128) # 0
                      THEN NumNeg(NumOfInt(
                               And32(result, Not32(Shl32(128, 8 * (Len(bytes) - 1))))))
                      ELSE NumOfInt(result)

\* isLock that looks at the prefix only
Lock_isLock_prefixOnly(s) == StartsWith(toHex(s), LOCK_PREFIX)

\* Lock.isLock(script)
Lock_isLock(s) ==
    LET hex == toHex(s)
    IN  StartsWith(hex, LOCK_PREFIX) /\ EndsWith(hex, LOCK_SUFFIX)

\* Lock.decode(script): the LockDecoded it returns, or the error it throws
Lock_decode(s) ==
    IF ~Lock_isLock(s)
    THEN [throws |-> "Script is not a valid Lock script"]
    ELSE LET hex == toHex(s)
             pkhOpcodeStart == Len(LOCK_PREFIX)
             pkhDataStart == pkhOpcodeStart + 2
             pkhHex == Slice(hex, pkhDataStart, pkhDataStart + 40)
             pkh == HexToArray(pkhHex)
             untilStart == pkhDataStart + 40
             suffixStart == Len(hex) - Len(LOCK_SUFFIX)
             untilHex == Slice(hex, untilStart, suffixStart)
             until == decodeBlockHeight(untilHex)
         IN  [pkh |-> pkh, until |-> until]

\* Utils.fromBase58Check(address).data for the addresses of the model: the
\* 20-byte public key hash the address encodes
fromBase58Check(address) ==
    CASE address = "1A1zP1eP5QGefi2DMPTfTL5SLmv7DivfNa" ->
            <<98, 233, 7, 177, 92, 191, 39, 213, 66, 83,
              153, 235, 246, 240, 251, 80, 235, 184, 143, 24>>
      [] address = "1111111111111111111114oLvT2" ->
            <<0, 0, 0, 0, 0, 0, 0, 0, 0, 0, 0, 0, 0, 0, 0, 0, 0, 0, 0, 0>>
      [] OTHER ->
            \* a hash whose last twelve bytes are the bytes of LOCK_SUFFIX
            <<255, 255, 255, 255, 255, 255, 255, 255>> \o HexToArray(LOCK_SUFFIX)

\* Lock.lock(address, until): the chunks of the locking script
Lock_lock(address, until) ==
    LET pkh == fromBase58Check(address)
    IN  fromHex(LOCK_PREFIX)
        \o <<Chunk(20, pkh)>>
        \o encodeBlockHeight(until)
        \o fromHex(LOCK_SUFFIX)

----------------------------------------------------------------------------
(* Inputs of the Lock operations                                           *)

\* the heights -HeightSpan .. HeightSpan are all tried
HeightSpan == 260

\* the longest height field of a parsed script that is tried in full
MaxUntilLen == 3

Addresses ==
    {"1A1zP1eP5QGefi2DMPTfTL5SLmv7DivfNa", "1111111111111111111114oLvT2",
     "addressOfHashEndingInSuffix"}

\* heights around the points where the encoding changes length or sign byte
BoundaryHeights ==
    {NumOfInt(s * (Pow2(k) + d)) :
        s \in {-1, 1}, k \in {7, 8, 15, 16, 23, 24, 30}, d \in {-1, 0, 1}}
    \cup {NumOfInt(i) : i \in {65535, 500000, 800000, 2147483647, -2147483647,
                               2147483646, -2147483646, 2139095040, -2139095040}}

\* heights of magnitude 2^31 and more: 2^31, 2^31 + 1, 2^32 - 1, 2^32,
\* 2^32 + 5, 2^40 and their negatives
BigHeights ==
    LET pos == {Num(32768, 0), Num(32768, 1), Num(65535, 65535), Num(65536, 0),
                Num(65536, 5), Num(16777216, 0)}
    IN  pos \cup {NumNeg(n) : n \in pos}

Heights ==
    {NumOfInt(i) : i \in (-HeightSpan)..HeightSpan} \cup BoundaryHeights \cup BigHeights

\* |h| <= 2^31 - 1
InRange31(h) == IsInt32(h) /\ h # Num(-32768, 0)

RECURSIVE SeqsUpTo(_, _)
SeqsUpTo(S, n) ==
    IF n = 0 THEN {<<>>}
    ELSE LET shorter == SeqsUpTo(S, n - 1)
         IN  shorter \cup {Append(q, x) : q \in {r \in shorter : Len(r) = n - 1}, x \in S}

\* what a parsed script may hold where lock() puts the height
UntilParts ==
    SeqsUpTo({0, 1, 2, 128, 255}, MaxUntilLen)
    \cup {<<79>>, <<81>>, <<96>>, <<4, 0, 0, 0, 128>>, <<4, 255, 255, 255, 255>>,
          <<5, 0, 0, 0, 128, 128>>, <<5, 1, 0, 0, 0, 1>>, <<3, 0, 53, 12>>,
          <<76, 1, 7>>}

\* what a parsed script may hold where lock() puts the push of the hash
PkhParts ==
    LET pkh == fromBase58Check("1A1zP1eP5QGefi2DMPTfTL5SLmv7DivfNa")
    IN  {<<>>, <<20>> \o pkh, <<20>> \o SubSeq(pkh, 1, 10), <<21>> \o pkh \o <<7>>}

P2PKH(address) ==
    <<118, 169, 20>> \o fromBase58Check(address) \o <<136, 172>>

\* serialised scripts handed to Script.fromHex: every combination of the
\* parts above between the prefix and the suffix, and scripts that lack the
\* prefix or the suffix
RawScripts ==
    LET pre == HexToArray(LOCK_PREFIX)
        suf == HexToArray(LOCK_SUFFIX)
        pkh == <<20>> \o fromBase58Check("1111111111111111111114oLvT2")
    IN  {BytesToHex(pre \o p \o u \o suf) : p \in PkhParts, u \in UntilParts}
        \cup {BytesToHex(P2PKH(a)) : a \in Addresses}
        \cup {BytesToHex(b) :
                b \in {<<>>, pre, suf, pre \o pkh \o <<0>>,
                       pkh \o <<0>> \o suf,
                       pre \o pkh \o <<0>> \o SubSeq(suf, 1, Len(suf) - 1),
                       Tail(pre) \o pkh \o <<0>> \o suf,
                       pre \o pkh \o <<0>> \o suf \o <<172>>}}

----------------------------------------------------------------------------
(* The Lock operations as actions                                          *)

Unset == [status |-> "unset", value |-> FALSE, pkh |-> <<>>, until |-> NumOfInt(0),
          throws |-> ""]

\* the outcome of a call: a returned boolean, a returned LockDecoded, or an error
Returned(v) == [Unset EXCEPT !.status = "returned", !.value = v]
ReturnedDecoded(d) == [Unset EXCEPT !.status = "returned", !.pkh = d.pkh, !.until = d.until]
Thrown(msg) == [Unset EXCEPT !.status = "thrown", !.throws = msg]

NoOrigin == [kind |-> "none", address |-> "", until |-> NumOfInt(0), hex |-> <<>>]

\* the caller's arguments: an address and a height for lock(), or a
\* serialised script for Script.fromHex
LockArgs ==
    {[NoOrigin EXCEPT !.kind = "lock", !.address = a, !.until = h] :
        a \in Addresses, h \in Heights}
    \cup {[NoOrigin EXCEPT !.kind = "hex", !.hex = hex] : hex \in RawScripts}

\* script = new Lock().lock(address, until)
DoLock ==
    /\ args.kind = "lock"
    /\ origin.kind = "none"
    /\ script' = Lock_lock(args.address, args.until)
    /\ origin' = args
    /\ isLockRes' = Unset
    /\ decoded' = Unset
    /\ UNCHANGED <<args, codecVars, verifyVars, unlockVars>>

\* script = Script.fromHex(hex)
DoFromHex ==
    /\ args.kind = "hex"
    /\ origin.kind = "none"
    /\ script' = fromHex(args.hex)
    /\ origin' = args
    /\ isLockRes' = Unset
    /\ decoded' = Unset
    /\ UNCHANGED <<args, codecVars, verifyVars, unlockVars>>

\* Lock.isLock(script)
DoIsLock ==
    /\ origin.kind # "none"
    /\ isLockRes' = Returned(Lock_isLock(script))
    /\ UNCHANGED <<args, script, origin, decoded, codecVars, verifyVars, unlockVars>>

\* Lock.decode(script)
DoDecode ==
    /\ origin.kind # "none"
    /\ decoded' = LET d == Lock_decode(script)
                  IN  IF "throws" \in DOMAIN d THEN Thrown(d.throws) ELSE ReturnedDecoded(d)
    /\ UNCHANGED <<args, script, origin, isLockRes, codecVars, verifyVars, unlockVars>>


----------------------------------------------------------------------------
(* Strings and numbers of the Sigma codec (@bsv/sdk Utils, JavaScript)     *)
(* A string is the sequence of its UTF-16 code units.                      *)

\* Utils.toArray(str, 'utf8') for code units below 0x800
RECURSIVE toArrayUtf8(_)
toArrayUtf8(str) ==
    IF str = <<>> THEN <<>>
    ELSE LET c == Head(str)
         IN  (IF c < 128 THEN <<c>>
              ELSE <<192 + (c \div 64), 128 + (c % 64)>>)
             \o toArrayUtf8(Tail(str))

\* bytes[i] or 0 when there is no such byte (undefined & 0x3f is 0)
ByteAt(bytes, i) == IF i <= Len(bytes) THEN bytes[i] ELSE 0

\* Utils.toUTF8(bytes): one- to three-byte sequences; a four-byte sequence
\* gives a surrogate pair; continuation bytes are skipped, and so is a byte
\* that starts nothing
RECURSIVE toUTF8From(_, _)
toUTF8From(bytes, i) ==
    IF i > Len(bytes) THEN <<>>
    ELSE LET b == bytes[i]
         IN  IF b <= 127 THEN <<b>> \o toUTF8From(bytes, i + 1)
             ELSE IF b >= 192 /\ b <= 223
             THEN <<(b % 32) * 64 + (ByteAt(bytes, i + 1) % 64)>>
                  \o toUTF8From(bytes, i + 2)
             ELSE IF b >= 224 /\ b <= 239
             THEN <<(b % 16) * 4096 + (ByteAt(bytes, i + 1) % 64) * 64
                    + (ByteAt(bytes, i + 2) % 64)>>
                  \o toUTF8From(bytes, i + 3)
             ELSE IF b >= 240 /\ b <= 247
             THEN LET cp == (b % 8) * 262144 + (ByteAt(bytes, i + 1) % 64) * 4096
                            + (ByteAt(bytes, i + 2) % 64) * 64
                            + (ByteAt(bytes, i + 3) % 64)
                  IN  <<55296 + ((cp - 65536) \div 1024), 56320 + ((cp - 65536) % 1024)>>
                      \o toUTF8From(bytes, i + 4)
             ELSE toUTF8From(bytes, i + 1)

toUTF8(bytes) == toUTF8From(bytes, 1)

\* NaN, the number that is no number
NaN == Num(0, -1)

IsDigit(c) == c >= 48 /\ c <= 57

\* parseInt: the digits read so far, up to the first code unit that is no digit
RECURSIVE parseDigits(_, _, _)
parseDigits(str, i, acc) ==
    IF i > Len(str) \/ ~IsDigit(str[i]) THEN acc
    ELSE parseDigits(str, i + 1, acc * 10 + (str[i] - 48))

RECURSIVE skipSpace(_, _)
skipSpace(str, i) ==
    IF i <= Len(str) /\ str[i] \in {9, 10, 11, 12, 13, 32} THEN skipSpace(str, i + 1) ELSE i

\* parseInt(str, 10): leading white space, a sign, then digits; NaN without a digit
parseInt10(str) ==
    LET i == skipSpace(str, 1)
        signed == i <= Len(str) /\ str[i] \in {43, 45}
        j == IF signed THEN i + 1 ELSE i
    IN  IF j > Len(str) \/ ~IsDigit(str[j]) THEN NaN
        ELSE IF signed /\ str[i] = 45 THEN NumNeg(NumOfInt(parseDigits(str, j, 0)))
        ELSE NumOfInt(parseDigits(str, j, 0))

\* the decimal digits of a natural number
RECURSIVE digitsOf(_)
digitsOf(m) == IF m < 10 THEN <<48 + m>> ELSE Append(digitsOf(m \div 10), 48 + (m % 10))

\* Number.prototype.toString() of a 32-bit integer or NaN
numberToString(n) ==
    IF n = NaN THEN <<78, 97, 78>>
    ELSE IF NumLT0(n) THEN <<45>> \o digitsOf(ToInt32(NumNeg(n)))
    ELSE digitsOf(ToInt32(n))

\* Script.writeBin(bin): the chunk it appends
writeBin(bin) ==
    IF Len(bin) > 0 /\ Len(bin) < 76 THEN Chunk(Len(bin), bin)
    ELSE IF Len(bin) = 0 THEN Chunk(0, bin)
    ELSE Chunk(76, bin)

----------------------------------------------------------------------------
(* Sigma: records and the segment codec                                    *)

\* 'SIGMA'
SIGMA_PREFIX == <<83, 73, 71, 77, 65>>

\* Algorithm.BSM = 'BSM' and Algorithm.BRC77 = 'BRC77'
BSM == <<66, 83, 77>>
BRC77 == <<66, 82, 67, 55, 55>>

\* a payload that is no byte array: Script.fromBinary throws on it
NotBinary == <<-1>>

\* SigmaData; bitcomIndex is <<>> when undefined, valid is "undefined", "true" or "false"
SigmaData(bitcomIndex, algorithm, address, signature, vin, valid) ==
    [bitcomIndex |-> bitcomIndex, algorithm |-> algorithm, address |-> address,
     signature |-> signature, vin |-> vin, valid |-> valid]

Protocol(label, payload) == [protocol |-> label, script |-> payload, pos |-> 0]

\* the try body reading the signature from the chunk after the right one
decodeSegment_signatureFromNextChunk(protocol, protoIdx) ==
    IF protocol.script = NotBinary THEN [kind |-> "throw", sigma |-> <<>>]
    ELSE LET chunks == fromBinary(protocol.script)
         IN  IF Len(chunks) < 4 THEN [kind |-> "short", sigma |-> <<>>]
             ELSE [kind |-> "sigma",
                   sigma |-> <<SigmaData(<<protoIdx>>,
                                         toUTF8(chunks[1].data),
                                         toUTF8(chunks[2].data),
                                         chunks[4].data,
                                         parseInt10(toUTF8(chunks[4].data)),
                                         "undefined")>>]

\* Sigma.decode, the body of the try block for the segment at protoIdx:
\* "throw" when Script.fromBinary throws, "short" when there are fewer than
\* four chunks, otherwise the record
decodeSegment(protocol, protoIdx) ==
    IF protocol.script = NotBinary THEN [kind |-> "throw", sigma |-> <<>>]
    ELSE LET chunks == fromBinary(protocol.script)
         IN  IF Len(chunks) < 4 THEN [kind |-> "short", sigma |-> <<>>]
             ELSE [kind |-> "sigma",
                   sigma |-> <<SigmaData(<<protoIdx>>,
                                         toUTF8(chunks[1].data),
                                         toUTF8(chunks[2].data),
                                         chunks[3].data,
                                         parseInt10(toUTF8(chunks[4].data)),
                                         "undefined")>>]

\* the for loop leaving at the first SIGMA segment it cannot decode
RECURSIVE decodeFrom_breakOnSkip(_, _, _)
decodeFrom_breakOnSkip(protos, protoIdx, acc) ==
    IF protoIdx >= Len(protos) THEN acc
    ELSE LET protocol == protos[protoIdx + 1]
         IN  IF protocol.protocol = SIGMA_PREFIX
             THEN LET d == decodeSegment(protocol, protoIdx)
                  IN  IF d.kind = "sigma"
                      THEN decodeFrom_breakOnSkip(protos, protoIdx + 1, acc \o d.sigma)
                      ELSE acc
             ELSE decodeFrom_breakOnSkip(protos, protoIdx + 1, acc)

\* Sigma.decode, the for loop from protoIdx on (protoIdx counts from 0)
RECURSIVE decodeFrom(_, _, _)
decodeFrom(protos, protoIdx, acc) ==
    IF protoIdx >= Len(protos) THEN acc
    ELSE LET protocol == protos[protoIdx + 1]
         IN  IF protocol.protocol = SIGMA_PREFIX
             THEN decodeFrom(protos, protoIdx + 1,
                             acc \o decodeSegment(protocol, protoIdx).sigma)
             ELSE decodeFrom(protos, protoIdx + 1, acc)

\* Sigma.decode(bitcom)
Sigma_decode(bitcom) ==
    IF Len(bitcom.protocols) = 0 THEN <<>>
    ELSE decodeFrom(bitcom.protocols, 0, <<>>)

\* Sigma.lock(): the protocol list handed to BitCom
Sigma_lock(data) ==
    LET s == << writeBin(toArrayUtf8(data.algorithm)),
                writeBin(toArrayUtf8(data.address)),
                writeBin(data.signature),
                writeBin(toArrayUtf8(numberToString(data.vin))) >>
    IN  <<Protocol(SIGMA_PREFIX, toBinary(s))>>

----------------------------------------------------------------------------
(* Base64 (@bsv/sdk Utils): a base64 string is the sequence of its digits  *)
(* 0..63, with 64 for the padding character                                *)

\* Utils.toBase64(bytes)
RECURSIVE toBase64(_)
toBase64(bytes) ==
    IF bytes = <<>> THEN <<>>
    ELSE IF Len(bytes) = 1
    THEN <<bytes[1] \div 4, (bytes[1] % 4) * 16, 64, 64>>
    ELSE IF Len(bytes) = 2
    THEN <<bytes[1] \div 4, (bytes[1] % 4) * 16 + bytes[2] \div 16, (bytes[2] % 16) * 4, 64>>
    ELSE <<bytes[1] \div 4, (bytes[1] % 4) * 16 + bytes[2] \div 16,
           (bytes[2] % 16) * 4 + bytes[3] \div 64, bytes[3] % 64>>
         \o toBase64(SubSeq(bytes, 4, Len(bytes)))

\* Utils.toArray(str, 'base64'): whole groups of four up to the padding
toArrayBase64(str) ==
    LET g      == Len(str) \div 4
        padded == {q \in 1..g : str[4 * q] = 64}
        full   == IF padded = {} THEN g
                  ELSE (CHOOSE q \in padded : \A p \in padded : q <= p) - 1
        tail   == IF padded = {} THEN 0
                  ELSE IF str[4 * full + 3] = 64 THEN 1 ELSE 2
    IN  [i \in 1..(3 * full + tail) |->
            LET k   == 4 * ((i - 1) \div 3)
                pos == (i - 1) % 3
            IN  IF pos = 0 THEN str[k + 1] * 4 + str[k + 2] \div 16
                ELSE IF pos = 1 THEN (str[k + 2] % 16) * 16 + str[k + 3] \div 4
                ELSE (str[k + 3] % 4) * 64 + str[k + 4]]

----------------------------------------------------------------------------
(* The signature primitives of @bsv/sdk, by their contract.                *)
(* A key pair is named by its private key.  A signature (r, s) made by key *)
(* k over the digest of message m is the pair that names k, m and the      *)
(* recovery factor f of the signing nonce; any other pair of 32-byte       *)
(* values is a signature nobody made.  Recovery and verification of what   *)
(* was signed follow the ECDSA contract; on everything else they do what   *)
(* `curve` says, candidate by candidate.                                   *)

PrivateKeys == {"k1", "k2"}

KeyId(k) == IF k = "k1" THEN 1 ELSE 2

\* privateKey.toAddress().toString() and publicKey.toAddress().toString()
toAddress(k) == <<49, 75, 48 + KeyId(k)>>

\* x as a 32-byte value
Pad32(x) == <<Len(x)>> \o x \o Bytes(31 - Len(x), 0)

\* BSM.magicHash(message)
magicHash(message) == [magic |-> message]

\* BSM.sign(message, privateKey, 'raw'): the Signature; f is the recovery
\* factor that the signing nonce fixes
BSM_sign(message, k, f) == [r |-> Pad32(<<KeyId(k), f>>), s |-> Pad32(message)]

\* who made the signature, over what, if anybody did
Owner(sig) ==
    LET message == IF sig.s[1] <= 31 THEN SubSeq(sig.s, 2, 1 + sig.s[1]) ELSE <<>>
        id == sig.r[2]
        f == sig.r[3]
        signers == {k \in PrivateKeys : KeyId(k) = id}
    IN  IF /\ signers # {}
           /\ f \in 0..3
           /\ sig.r = Pad32(<<id, f>>)
           /\ sig.s = Pad32(message)
        THEN [genuine |-> TRUE, key |-> CHOOSE k \in signers : TRUE, f |-> f,
              message |-> message]
        ELSE [genuine |-> FALSE, key |-> "", f |-> 0, message |-> <<>>]

\* what the curve arithmetic does for one recovery candidate
Throws == [kind |-> "throw", key |-> "", verifies |-> "false"]
Recovers(k, v) == [kind |-> "key", key |-> k, verifies |-> v]

\* sig.RecoverPublicKey(recovery, e): the public key, or Throws
RecoverPublicKey(sig, recovery, e) ==
    LET o == Owner(sig)
    IN  IF o.genuine /\ e = magicHash(o.message) /\ recovery = o.f
        THEN Recovers(o.key, "true")
        ELSE curve[recovery]

\* BSM.verify(message, sig, publicKey) for the key recovered as candidate
\* `recovery`: "true", "false" or "throw"
BSM_verify(message, sig, publicKey, recovery) ==
    LET o == Owner(sig)
    IN  IF o.genuine /\ message = o.message /\ publicKey = o.key THEN "true"
        ELSE curve[recovery].verifies

\* sig.CalculateRecoveryFactor(publicKey, e): the first candidate that
\* recovers the key
RECURSIVE CalculateRecoveryFactor(_, _, _, _)
CalculateRecoveryFactor(sig, publicKey, e, recovery) ==
    LET q == RecoverPublicKey(sig, recovery, e)
    IN  IF q.kind = "key" /\ q.key = publicKey THEN recovery
        ELSE CalculateRecoveryFactor(sig, publicKey, e, recovery + 1)

\* sig.toCompact(recovery, true, 'base64')
toCompact(sig, recovery) == toBase64(<<27 + recovery + 4>> \o sig.r \o sig.s)

\* Signature.fromCompact(str, 'base64'): the Signature, or "throw"
fromCompact(str) ==
    LET data == toArrayBase64(str)
    IN  IF Len(data) # 65 THEN [kind |-> "throw", r |-> <<>>, s |-> <<>>]
        ELSE IF data[1] < 27 \/ data[1] >= 35 THEN [kind |-> "throw", r |-> <<>>, s |-> <<>>]
        ELSE [kind |-> "sig", r |-> SubSeq(data, 2, 33), s |-> SubSeq(data, 34, 65)]

\* the version bytes of a BRC-77 signature
BRC77_VERSION == <<66, 66, 51, 1>>

\* SignedMessage.sign(message, signer, verifier): verifier is "" for anyone
SignedMessage_sign(message, signer, verifier) ==
    BRC77_VERSION
    \o <<KeyId(signer), IF verifier = "" THEN 0 ELSE KeyId(verifier)>>
    \o message

\* SignedMessage.verify(message, sig, recipient): "true", "false" or "throw";
\* recipient is "" when none is given
SignedMessage_verify(message, sig, recipient) ==
    IF Len(sig) < 6 \/ SubSeq(sig, 1, 4) # BRC77_VERSION THEN "throw"
    ELSE IF sig[5] \notin {KeyId(k) : k \in PrivateKeys} THEN "throw"
    ELSE IF sig[6] # 0 /\ recipient = "" THEN "throw"
    ELSE IF sig[6] # 0 /\ KeyId(recipient) # sig[6] THEN "throw"
    ELSE IF SubSeq(sig, 7, Len(sig)) = message THEN "true"
    ELSE "false"

----------------------------------------------------------------------------
(* Sigma: signer and verifier                                              *)

\* Sigma.sign that signs dataHash ++ inputHash
Sigma_sign_hashesSwapped(inputHash, dataHash, privateKey, options, f) ==
    LET algorithm == options.algorithm
        address == toAddress(privateKey)
        messageHash == dataHash \o inputHash
        signatureArray ==
            IF algorithm = BRC77
            THEN SignedMessage_sign(messageHash, privateKey, options.verifier)
            ELSE LET sig == BSM_sign(messageHash, privateKey, f)
                     recoveryFactor ==
                         CalculateRecoveryFactor(sig, privateKey, magicHash(messageHash), 0)
                 IN  toArrayBase64(toCompact(sig, recoveryFactor))
    IN  SigmaData(<<>>, algorithm, address, signatureArray, options.vin, "true")

\* Sigma.sign(inputHash, dataHash, privateKey, options): the data of the
\* Sigma it returns; f is the recovery factor of the nonce BSM.sign draws
Sigma_sign(inputHash, dataHash, privateKey, options, f) ==
    LET algorithm == options.algorithm
        vin == options.vin
        address == toAddress(privateKey)
        messageHash == inputHash \o dataHash
        signatureArray ==
            IF algorithm = BRC77
            THEN SignedMessage_sign(messageHash, privateKey, options.verifier)
            ELSE LET sig == BSM_sign(messageHash, privateKey, f)
                     magicHashValue == magicHash(messageHash)
                     recoveryFactor ==
                         CalculateRecoveryFactor(sig, privateKey, magicHashValue, 0)
                     compactSig == toCompact(sig, recoveryFactor)
                 IN  toArrayBase64(compactSig)
    IN  SigmaData(<<>>, algorithm, address, signatureArray, vin, "true")

\* the outcome of a call of verifyWithHashes: what it returns ("true" or
\* "false") or that it throws ("thrown"), the valid flag it leaves, and how
\* many recovery candidates it tried
Outcome(result, valid, tried) == [result |-> result, valid |-> valid, tried |-> tried]

\* the loop without the inner try: a candidate that throws ends it
RECURSIVE recoveryLoop_throwIsFatal(_, _, _, _)
recoveryLoop_throwIsFatal(data, messageHash, sig, recovery) ==
    IF recovery >= 4 THEN Outcome("false", "false", 4)
    ELSE LET publicKey == RecoverPublicKey(sig, recovery, magicHash(messageHash))
             verified ==
                 IF publicKey.kind = "throw" THEN "throw"
                 ELSE BSM_verify(messageHash, sig, publicKey.key, recovery)
         IN  IF verified = "throw" THEN Outcome("thrown", data.valid, recovery + 1)
             ELSE IF verified = "true" /\ toAddress(publicKey.key) = data.address
             THEN Outcome("true", "true", recovery + 1)
             ELSE recoveryLoop_throwIsFatal(data, messageHash, sig, recovery + 1)

\* verifyWithHashes, the loop over the recovery candidates from `recovery` on
RECURSIVE recoveryLoop(_, _, _, _)
recoveryLoop(data, messageHash, sig, recovery) ==
    IF recovery >= 4 THEN Outcome("false", "false", 4)
    ELSE LET publicKey == RecoverPublicKey(sig, recovery, magicHash(messageHash))
             verified ==
                 IF publicKey.kind = "throw" THEN "throw"
                 ELSE BSM_verify(messageHash, sig, publicKey.key, recovery)
         IN  IF verified = "true" /\ toAddress(publicKey.key) = data.address
             THEN Outcome("true", "true", recovery + 1)
             ELSE recoveryLoop(data, messageHash, sig, recovery + 1)

\* verifyWithHashes, the outer try block: an exception leaves it as "thrown"
verifyTry(data, inputHash, dataHash, recipientPrivateKey) ==
    LET messageHash == inputHash \o dataHash
    IN  IF data.algorithm = BRC77
        THEN LET v == SignedMessage_verify(messageHash, data.signature, recipientPrivateKey)
             IN  IF v = "throw" THEN Outcome("thrown", data.valid, 0)
                 ELSE Outcome(v, v, 0)
        ELSE LET signatureBase64 == toBase64(data.signature)
             IN  CHOOSE o \in
                     {IF sig.kind = "throw" THEN Outcome("thrown", data.valid, 0)
                      ELSE recoveryLoop(data, messageHash, [r |-> sig.r, s |-> sig.s], 0) :
                          sig \in {fromCompact(signatureBase64)}} : TRUE

\* verifyWithHashes without its outer catch
verifyWithHashes_noCatch(data, inputHash, dataHash, recipientPrivateKey) ==
    verifyTry(data, inputHash, dataHash, recipientPrivateKey)

\* verifyWithHashes whose outer catch returns false and leaves the flag alone
verifyWithHashes_catchKeepsFlag(data, inputHash, dataHash, recipientPrivateKey) ==
    LET t == verifyTry(data, inputHash, dataHash, recipientPrivateKey)
    IN  IF t.result = "thrown" THEN Outcome("false", data.valid, t.tried) ELSE t

\* Sigma.verifyWithHashes(inputHash, dataHash, recipientPrivateKey)
verifyWithHashes(data, inputHash, dataHash, recipientPrivateKey) ==
    LET t == verifyTry(data, inputHash, dataHash, recipientPrivateKey)
    IN  IF t.result = "thrown" THEN Outcome("false", "false", t.tried) ELSE t

\* Sigma.verify()
Sigma_verify(data) == data.valid = "true"

----------------------------------------------------------------------------
(* Inputs of the Sigma codec                                               *)

\* the input indexes 0 .. MaxVin are all tried
MaxVin == 11

\* the longest list of protocol segments that is tried
MaxSegments == 2

\* sample signature bytes: none, one byte, 65 bytes of a compact signature,
\* 80 bytes (more than a one-byte push opcode can announce)
SampleSignatures ==
    {<<>>, <<5>>, <<31>> \o Bytes(32, 17) \o Bytes(32, 34), Bytes(80, 200)}

\* sample addresses: '', '1K1', and a string with code units above 0x7f
SampleAddresses == {<<>>, <<49, 75, 49>>, <<49, 233, 1000>>}

Vins == {NumOfInt(i) : i \in (0..MaxVin) \cup {255, 65536, 2147483647}}

CodecRecords ==
    {SigmaData(<<>>, alg, addr, sig, vin, valid) :
        alg \in {BSM, BRC77}, addr \in SampleAddresses, sig \in SampleSignatures,
        vin \in Vins, valid \in {"undefined", "true", "false"}}

\* payloads of protocol segments: four pushes with a 65-byte signature, four
\* pushes with a 3-byte signature, four pushes of the other algorithm, three
\* pushes, five pushes, four opcodes that push nothing, a truncated push,
\* nothing, and a payload Script.fromBinary throws on
SamplePayloads ==
    LET alg == writeBin(toArrayUtf8(BSM))
        adr == writeBin(toArrayUtf8(<<49, 75, 49>>))
        sig == writeBin(<<31>> \o Bytes(32, 17) \o Bytes(32, 34))
        vin == writeBin(<<48>>)
    IN  {toBinary(<<alg, adr, sig, vin>>),
         toBinary(<<alg, adr, writeBin(<<1, 2, 3>>), vin>>),
         toBinary(<<writeBin(toArrayUtf8(BRC77)), adr, writeBin(Bytes(80, 200)), vin>>),
         toBinary(<<alg, adr, sig>>),
         toBinary(<<alg, adr, sig, writeBin(<<49, 120>>), vin>>),
         <<118, 118, 118, 118>>,
         <<3, 66, 83, 77, 2, 49>>,
         <<>>,
         NotBinary}

SampleProtocols ==
    {Protocol(label, payload) :
        label \in {SIGMA_PREFIX, <<65, 73, 80>>}, payload \in SamplePayloads}

NoRecord == SigmaData(<<>>, <<>>, <<>>, <<>>, NumOfInt(0), "undefined")

\* what the caller holds: a record to write with lock(), or the segments
\* BitCom.decode found in a script
CodecArgs ==
    {[kind |-> "record", data |-> d, protocols |-> <<>>] : d \in CodecRecords}
    \cup {[kind |-> "list", data |-> NoRecord, protocols |-> l] :
            l \in SeqsUpTo(SampleProtocols, MaxSegments)}

----------------------------------------------------------------------------
(* The Sigma codec operations as actions                                   *)

NoSigmas == [status |-> "unset", list |-> <<>>]

\* new Sigma(data).lock(): the segment it hands to BitCom
DoSigmaLock ==
    /\ sargs.kind = "record"
    /\ written = <<>>
    /\ protocols' = Sigma_lock(sargs.data)
    /\ written' = <<sargs.data>>
    /\ sigmas' = NoSigmas
    /\ UNCHANGED <<sargs, lockVars, verifyVars, unlockVars>>

\* Sigma.decode(bitcom) on the protocol segments at hand
DoSigmaDecode ==
    /\ sargs.kind # "none"
    /\ sargs.kind = "record" => written # <<>>
    /\ sigmas' = [status |-> "returned", list |-> Sigma_decode([protocols |-> protocols])]
    /\ UNCHANGED <<sargs, protocols, written, lockVars, verifyVars, unlockVars>>



----------------------------------------------------------------------------
(* Inputs of the Sigma signer and verifier                                 *)

\* the hashes handed to sign and to verifyWithHashes
Hashes == {<<170, 1>>, <<170, 2>>}

\* what the curve arithmetic may do for one recovery candidate on inputs
\* nobody signed: recovery throws, verification throws, a key is recovered
\* and the signature verifies under it, or does not
CandidateOutcomes ==
    {Throws, Recovers("k1", "true"), Recovers("k2", "true"), Recovers("k1", "false")}

\* every combination of these over the four candidates, and some curves on
\* which verification throws
Curves ==
    [0..3 -> CandidateOutcomes]
    \cup {[j \in 0..3 |-> IF j = i THEN Recovers("k1", "true") ELSE Recovers("k1", "throw")] :
            i \in 0..4}

\* the curves a signed record is verified on: a candidate nobody signed
\* throws, or recovers key k2; the candidates in S are those that recover it
SignerCurves ==
    {[j \in 0..3 |-> IF j \in S THEN Recovers("k2", "true") ELSE Throws] :
        S \in {{}, {0}, {1, 3}, 0..3}}

DefaultCurve == [j \in 0..3 |-> Throws]

SignOptions ==
    {[algorithm |-> BSM, vin |-> NumOfInt(0), verifier |-> ""]}
    \cup {[algorithm |-> BRC77, vin |-> NumOfInt(1), verifier |-> v] :
            v \in {""} \cup PrivateKeys}

\* the compact signature key k1 made over Hashes' first message with factor 1
SignedCompact ==
    toArrayBase64(toCompact(BSM_sign(<<170, 1, 170, 1>>, "k1", 1), 1))

\* a record as Sigma.decode returns it, whose signature parses as a compact
\* signature that nobody made
UnsignedRecords ==
    {SigmaData(<<0>>, BSM, toAddress("k1"), <<31>> \o Bytes(32, 17) \o Bytes(32, 34),
               NumOfInt(0), "undefined")}

\* the signature key k1 made, under its address, under another address and
\* under the name of no algorithm
SignedRecords ==
    {SigmaData(<<0>>, BSM, toAddress("k1"), SignedCompact, NumOfInt(0), "undefined"),
     SigmaData(<<0>>, BSM, toAddress("k2"), SignedCompact, NumOfInt(0), "undefined"),
     SigmaData(<<1>>, <<88, 89>>, toAddress("k1"), SignedCompact, NumOfInt(0), "undefined")}

\* records as Sigma.decode returns them, whose signature is malformed, and
\* records of the other algorithm
OtherRecords ==
    {SigmaData(<<0>>, BSM, toAddress("k1"), sig, NumOfInt(0), "undefined") :
        sig \in {<<>>, <<1, 2, 3>>, <<26>> \o Bytes(64, 17), <<35>> \o Bytes(64, 17),
                 <<31>> \o Bytes(65, 17)}}
    \cup {SigmaData(<<0>>, BRC77, toAddress("k1"), sig, NumOfInt(0), "undefined") :
            sig \in {<<>>, <<1, 2, 3, 4, 5, 6, 7>>,
                     SignedMessage_sign(<<170, 1, 170, 1>>, "k1", ""),
                     SignedMessage_sign(<<170, 1, 170, 2>>, "k1", "k2"),
                     BRC77_VERSION \o <<9, 0>>}}

\* the recipient keys handed to verifyWithHashes: none, the key a private
\* signature is made for, and another key
Recipients == {"", "k1", "k2"}

NoArgs == [kind |-> "none", inputHash |-> <<>>, dataHash |-> <<>>, privateKey |-> "",
           options |-> [algorithm |-> BSM, vin |-> NumOfInt(0), verifier |-> ""],
           data |-> NoRecord]

\* what the caller holds with the curve it meets: the arguments of
\* Sigma.sign, or a record Sigma.decode returned
VerifyArgs ==
    UNION {{<<[NoArgs EXCEPT !.kind = "sign", !.inputHash = ih, !.dataHash = dh,
                             !.privateKey = k, !.options = o], c>> :
               ih \in Hashes, dh \in Hashes, k \in PrivateKeys,
               c \in IF o.algorithm = BRC77 THEN {DefaultCurve} ELSE SignerCurves} :
           o \in SignOptions}
    \cup {<<[NoArgs EXCEPT !.kind = "decoded", !.data = d], c>> :
            d \in UnsignedRecords, c \in Curves}
    \cup {<<[NoArgs EXCEPT !.kind = "decoded", !.data = d], c>> :
            d \in SignedRecords, c \in SignerCurves}
    \cup {<<[NoArgs EXCEPT !.kind = "decoded", !.data = d], DefaultCurve>> :
            d \in OtherRecords}

----------------------------------------------------------------------------
(* The Sigma signer and verifier as actions                                *)

NoCall == [made |-> FALSE, inputHash |-> <<>>, dataHash |-> <<>>,
           recipientPrivateKey |-> "", result |-> "unset", tried |-> 0]

\* rec = Sigma.sign(inputHash, dataHash, privateKey, options).data
DoSign(f) ==
    /\ vargs.kind = "sign"
    /\ rec = <<>>
    /\ rec' = <<Sigma_sign(vargs.inputHash, vargs.dataHash, vargs.privateKey,
                           vargs.options, f)>>
    /\ UNCHANGED <<vargs, curve, lastCall, checked, lockVars, codecVars, unlockVars>>

\* sigma.verifyWithHashes(inputHash, dataHash, recipientPrivateKey)
DoVerifyWithHashes(inputHash, dataHash, recipientPrivateKey) ==
    /\ rec # <<>>
    /\ \E o \in {verifyWithHashes(rec[1], inputHash, dataHash, recipientPrivateKey)} :
           /\ rec' = IF o.result = "thrown" THEN rec
                     ELSE <<[rec[1] EXCEPT !.valid = o.valid]>>
           /\ lastCall' = [made |-> TRUE, inputHash |-> inputHash, dataHash |-> dataHash,
                           recipientPrivateKey |-> recipientPrivateKey,
                           result |-> o.result, tried |-> o.tried]
    /\ checked' = "unset"
    /\ UNCHANGED <<vargs, curve, lockVars, codecVars, unlockVars>>

\* sigma.verify()
DoVerify ==
    /\ rec # <<>>
    /\ checked' = IF Sigma_verify(rec[1]) THEN "true" ELSE "false"
    /\ UNCHANGED <<vargs, curve, rec, lastCall, lockVars, codecVars, unlockVars>>

----------------------------------------------------------------------------
(* Lock.unlock: the signer it returns                                      *)
(* An optional value is <<>> when undefined and <<v>> when it is v.        *)
(* TransactionSignature.format, Hash.sha256 and privateKey.sign are taken  *)
(* by their contract: the preimage names what was signed, and a signature  *)
(* is a pair of 32-byte values r and s, s in the lower half.               *)

\* TransactionSignature.SIGHASH_*
SIGHASH_ALL == 1
SIGHASH_NONE == 2
SIGHASH_SINGLE == 3
SIGHASH_FORKID == 64
SIGHASH_ANYONECANPAY == 128

\* the signature scope the signer computes
signatureScope(signOutputs, anyoneCanPay) ==
    LET base == IF signOutputs = "all" THEN Or32(SIGHASH_FORKID, SIGHASH_ALL)
                ELSE IF signOutputs = "none" THEN Or32(SIGHASH_FORKID, SIGHASH_NONE)
                ELSE IF signOutputs = "single" THEN Or32(SIGHASH_FORKID, SIGHASH_SINGLE)
                ELSE SIGHASH_FORKID
    IN  IF anyoneCanPay THEN Or32(base, SIGHASH_ANYONECANPAY) ELSE base

\* a transaction input
TxInput(sourceTXID, sourceTransaction, sourceOutputIndex, sequence) ==
    [sourceTXID |-> sourceTXID, sourceTransaction |-> sourceTransaction,
     sourceOutputIndex |-> sourceOutputIndex, sequence |-> sequence]

\* tx.inputs.filter((_, index) => index !== inputIndex); indexes count from 0
RECURSIVE otherInputsFrom(_, _, _)
otherInputsFrom(inputs, inputIndex, i) ==
    IF i > Len(inputs) THEN <<>>
    ELSE (IF i - 1 # inputIndex THEN <<inputs[i]>> ELSE <<>>)
         \o otherInputsFrom(inputs, inputIndex, i + 1)

\* input.sourceTransaction?.outputs[input.sourceOutputIndex], optional
sourceOutput(input) ==
    IF input.sourceTransaction = <<>> THEN <<>>
    ELSE IF input.sourceOutputIndex >= Len(input.sourceTransaction[1].outputs) THEN <<>>
    ELSE <<input.sourceTransaction[1].outputs[input.sourceOutputIndex + 1]>>

\* Hash.sha256(preimage)
sha256(preimage) == [sha256 |-> preimage]

\* privateKey.sign(digest): r and s name the key and what was signed; the
\* nonce fixes their leading bytes
PrivateKey_sign(privateKey, digest, nonce) ==
    LET p == digest.sha256
    IN  [r |-> <<nonce.rTop, KeyId(privateKey)>> \o Bytes(30, 7),
         s |-> <<nonce.sTop, p.scope, p.lockTime.lo % 256, p.inputSequence.lo % 256,
                 p.inputIndex>> \o Bytes(27, 9)]

\* a 32-byte value as a DER integer: no leading zero bytes, and a zero byte
\* in front when the first bit is set
RECURSIVE stripZeros(_)
stripZeros(bytes) ==
    IF Len(bytes) > 1 /\ bytes[1] = 0 THEN stripZeros(Tail(bytes)) ELSE bytes

DERInt(bytes) ==
    LET v == stripZeros(bytes)
        w == IF v[1] >= 128 THEN <<0>> \o v ELSE v
    IN  <<2, Len(w)>> \o w

\* new TransactionSignature(r, s, scope).toChecksigFormat()
toChecksigFormat(r, s, scope) ==
    LET rI == DERInt(r)
        sI == DERInt(s)
    IN  <<48, Len(rI) + Len(sI)>> \o rI \o sI \o <<scope>>

\* privateKey.toPublicKey().encode(true)
encodeCompressed(privateKey) == <<2, KeyId(privateKey)>> \o Bytes(31, 5)

NoUnlock == [status |-> "unset", throws |-> "", chunks |-> <<>>, signed |-> FALSE]

\* the outcome of the signer: the unlocking script, or an error thrown before
\* privateKey.sign was called
Unlocked(chunks) == [NoUnlock EXCEPT !.status = "returned", !.chunks = chunks, !.signed = TRUE]
UnlockThrown(msg) == [NoUnlock EXCEPT !.status = "thrown", !.throws = msg]

\* unlock(privateKey, signOutputs, anyoneCanPay, sourceSatoshis, lockingScript)
\*     .sign(tx, inputIndex)
Lock_unlock_sign(privateKey, signOutputs, anyoneCanPay, sourceSatoshis, lockingScript, tx, inputIndex, nonce) ==
    LET scope == signatureScope(signOutputs, anyoneCanPay)
    IN  IF inputIndex >= Len(tx.inputs)
        THEN UnlockThrown("TypeError")
        ELSE LET input == tx.inputs[inputIndex + 1]
                 otherInputs == otherInputsFrom(tx.inputs, inputIndex, 1)
                 sourceTXID ==
                     IF input.sourceTXID # <<>> THEN input.sourceTXID
                     ELSE IF input.sourceTransaction # <<>>
                     THEN <<input.sourceTransaction[1].id>>
                     ELSE <<>>
             IN  IF sourceTXID = <<>> \/ sourceTXID[1] = ""
                 THEN UnlockThrown("The input sourceTXID or sourceTransaction is required for transaction signing.")
                 ELSE LET out == sourceOutput(input)
                          sats == IF sourceSatoshis # <<>> THEN sourceSatoshis[1]
                                  ELSE IF out # <<>> THEN out[1].satoshis
                                  ELSE NumOfInt(0)
                          subscript == IF lockingScript # <<>> THEN lockingScript[1]
                                       ELSE IF out # <<>> THEN out[1].lockingScript
                                       ELSE <<>>
                          preimage ==
                              [sourceTXID |-> sourceTXID[1],
                               sourceOutputIndex |-> input.sourceOutputIndex,
                               sourceSatoshis |-> sats,
                               transactionVersion |-> tx.version,
                               otherInputs |-> otherInputs,
                               inputIndex |-> inputIndex,
                               outputs |-> tx.outputs,
                               inputSequence |-> IF input.sequence # <<>> THEN input.sequence[1]
                                                 ELSE NumOfInt(0),
                               subscript |-> subscript,
                               lockTime |-> tx.lockTime,
                               scope |-> scope]
                          rawSignature == PrivateKey_sign(privateKey, sha256(preimage), nonce)
                          sig == toChecksigFormat(rawSignature.r, rawSignature.s, scope)
                      IN  Unlocked(<<Chunk(Len(sig), sig),
                                     Chunk(33, encodeCompressed(privateKey))>>)

----------------------------------------------------------------------------
(* Inputs of the signer                                                    *)

\* the longest list of transaction inputs that is tried; the input indexes
\* 0 .. MaxInputs are all tried
MaxInputs == 2

\* a transaction id, 64 hex digits
SampleTXID == "e3b0c44298fc1c149afbf4c8996fb92427ae41e4649b934ca495991b7852b855"

\* the locked output of the test and the transaction that holds it
LockedScript == Lock_lock("1A1zP1eP5QGefi2DMPTfTL5SLmv7DivfNa", NumOfInt(800000))

SourceTx ==
    [id |-> "4a5e1e4baab89f3a32518a88c31bc87f618f76673e2cc77ab2127b7afdeda33b",
     outputs |-> <<[satoshis |-> NumOfInt(10000), lockingScript |-> LockedScript]>>]

\* inputs with and without a sourceTXID (the empty string among them), with
\* and without a sourceTransaction, with no sequence number, 0 and 0xffffffff
TxInputs ==
    {TxInput(id, src, 0, seq) :
        id \in {<<>>, <<"">>, <<SampleTXID>>},
        src \in {<<>>, <<SourceTx>>},
        seq \in {<<>>, <<NumOfInt(0)>>, <<Num(B16 - 1, B16 - 1)>>}}

\* an input that has all it needs
PlainInput == TxInput(<<SampleTXID>>, <<>>, 0, <<NumOfInt(0)>>)

\* lists of inputs: one input of any kind among plain ones
InputLists ==
    {<<>>} \cup
    {[i \in 1..n |-> IF i = p THEN inp ELSE PlainInput] :
        n \in 1..MaxInputs, p \in 1..MaxInputs, inp \in TxInputs}

\* transactions with lock-time 0 and 800000
Transactions ==
    {[version |-> 1, inputs |-> ins,
      outputs |-> <<[satoshis |-> NumOfInt(9800), lockingScript |-> <<>>]>>,
      lockTime |-> lt] :
        ins \in InputLists, lt \in {NumOfInt(0), NumOfInt(800000)}}

\* the leading bytes of r and s that the nonce may give
Nonces == {[rTop |-> 200, sTop |-> 1], [rTop |-> 0, sTop |-> 0]}

NoUnlockArgs ==
    [kind |-> "none", privateKey |-> "", signOutputs |-> "all", anyoneCanPay |-> FALSE,
     sourceSatoshis |-> <<>>, lockingScript |-> <<>>,
     tx |-> [version |-> 1, inputs |-> <<>>, outputs |-> <<>>, lockTime |-> NumOfInt(0)],
     inputIndex |-> 0, nonce |-> [rTop |-> 0, sTop |-> 0]]

\* the arguments of unlock() and of sign()
UnlockArgs ==
    {[NoUnlockArgs EXCEPT !.kind = "unlock", !.privateKey = k, !.signOutputs = so,
                          !.anyoneCanPay = acp, !.sourceSatoshis = given[1],
                          !.lockingScript = given[2], !.tx = tx, !.inputIndex = i,
                          !.nonce = nonce] :
        k \in PrivateKeys, so \in {"all", "none", "single"}, acp \in BOOLEAN,
        given \in {<<<<>>, <<>>>>, <<<<NumOfInt(10000)>>, <<LockedScript>>>>},
        tx \in Transactions, i \in 0..MaxInputs, nonce \in Nonces}

\* unlockScript = await lock.unlock(...).sign(tx, inputIndex)
DoUnlockSign ==
    /\ uargs.kind = "unlock"
    /\ unlockRes.status = "unset"
    /\ unlockRes' = Lock_unlock_sign(uargs.privateKey, uargs.signOutputs,
                                     uargs.anyoneCanPay, uargs.sourceSatoshis,
                                     uargs.lockingScript, uargs.tx, uargs.inputIndex,
                                     uargs.nonce)
    /\ UNCHANGED <<uargs, lockVars, codecVars, verifyVars>>

----------------------------------------------------------------------------
(* The four parts, each on its own and together                            *)

NoCodecArgs == [kind |-> "none", data |-> NoRecord, protocols |-> <<>>]

\* the Lock template alone
InitLock ==
    /\ args \in LockArgs
    /\ script = <<>>
    /\ origin = NoOrigin
    /\ isLockRes = Unset
    /\ decoded = Unset
    /\ sargs = NoCodecArgs
    /\ protocols = <<>>
    /\ written = <<>>
    /\ sigmas = NoSigmas
    /\ vargs = NoArgs
    /\ curve = DefaultCurve
    /\ rec = <<>>
    /\ lastCall = NoCall
    /\ checked = "unset"
    /\ uargs = NoUnlockArgs
    /\ unlockRes = NoUnlock

NextLock ==
    \/ DoLock
    \/ DoFromHex
    \/ DoIsLock
    \/ DoDecode

SpecLock == InitLock /\ [][NextLock]_vars

\* the Sigma codec alone
InitCodec ==
    /\ args = NoOrigin
    /\ script = <<>>
    /\ origin = NoOrigin
    /\ isLockRes = Unset
    /\ decoded = Unset
    /\ sargs \in CodecArgs
    /\ protocols = sargs.protocols
    /\ written = <<>>
    /\ sigmas = NoSigmas
    /\ vargs = NoArgs
    /\ curve = DefaultCurve
    /\ rec = <<>>
    /\ lastCall = NoCall
    /\ checked = "unset"
    /\ uargs = NoUnlockArgs
    /\ unlockRes = NoUnlock

NextCodec ==
    \/ DoSigmaLock
    \/ DoSigmaDecode

SpecCodec == InitCodec /\ [][NextCodec]_vars

\* the Sigma signer and verifier alone
InitVerify ==
    /\ args = NoOrigin
    /\ script = <<>>
    /\ origin = NoOrigin
    /\ isLockRes = Unset
    /\ decoded = Unset
    /\ sargs = NoCodecArgs
    /\ protocols = <<>>
    /\ written = <<>>
    /\ sigmas = NoSigmas
    /\ \E a \in VerifyArgs :
          /\ vargs = a[1]
          /\ curve = a[2]
          /\ rec = IF a[1].kind = "decoded" THEN <<a[1].data>> ELSE <<>>
    /\ lastCall = NoCall
    /\ checked = "unset"
    /\ uargs = NoUnlockArgs
    /\ unlockRes = NoUnlock

NextVerify ==
    \/ \E f \in 0..3 : DoSign(f)
    \/ \E ih \in Hashes, dh \in Hashes, k \in Recipients :
           DoVerifyWithHashes(ih, dh, k)
    \/ DoVerify

SpecVerify == InitVerify /\ [][NextVerify]_vars

\* the signer of Lock.unlock alone
InitUnlock ==
    /\ args = NoOrigin
    /\ script = <<>>
    /\ origin = NoOrigin
    /\ isLockRes = Unset
    /\ decoded = Unset
    /\ sargs = NoCodecArgs
    /\ protocols = <<>>
    /\ written = <<>>
    /\ sigmas = NoSigmas
    /\ vargs = NoArgs
    /\ curve = DefaultCurve
    /\ rec = <<>>
    /\ lastCall = NoCall
    /\ checked = "unset"
    /\ uargs \in UnlockArgs
    /\ unlockRes = NoUnlock

NextUnlock == DoUnlockSign

SpecUnlock == InitUnlock /\ [][NextUnlock]_vars

\* the four together: a caller uses one of them at a time
Init == InitLock \/ InitCodec \/ InitVerify \/ InitUnlock

Next == NextLock \/ NextCodec \/ NextVerify \/ NextUnlock

Spec == Init /\ [][Next]_vars

----------------------------------------------------------------------------
(* Properties of the Lock template                                         *)

\* C1: for every address and every height h with |h| <= 2^31 - 1, the script
\* built by lock(address, h) satisfies isLock, and Lock.decode of it returns
\* until = h: decodeBlockHeight(encodeBlockHeight(h)) = h.
C1_RoundTrip ==
    (origin.kind = "lock" /\ InRange31(origin.until)) =>
        /\ decodeBlockHeight(toHex(encodeBlockHeight(origin.until))) = origin.until
        /\ isLockRes.status = "returned" => isLockRes.value
        /\ decoded.status # "unset" =>
               decoded.status = "returned" /\ decoded.until = origin.until

\* C1 happens: the largest height of the range was locked, recognised and decoded
C1_Witness ==
    /\ origin.kind = "lock"
    /\ origin.until = NumOfInt(2147483647)
    /\ isLockRes = Returned(TRUE)
    /\ decoded.status = "returned"
    /\ decoded.until = NumOfInt(2147483647)

\* the little-endian bytes of a natural number below 2^31, without padding
RECURSIVE LEBytes(_)
LEBytes(m) == IF m = 0 THEN <<>> ELSE <<m % 256>> \o LEBytes(m \div 256)

\* the little-endian bytes of the magnitude of a positive number, without padding
MagnitudeBytes(n) ==
    IF n.hi = 0 THEN LEBytes(n.lo)
    ELSE <<n.lo % 256, n.lo \div 256>> \o LEBytes(n.hi)

\* the canonical minimal script number of n
CanonicalEncoding(n) ==
    IF NumIsZero(n) THEN <<Chunk(0, <<>>)>>
    ELSE IF n.hi = 0 /\ n.lo >= 1 /\ n.lo <= 16 THEN <<Chunk(80 + n.lo, <<>>)>>
    ELSE IF n = NumOfInt(-1) THEN <<Chunk(79, <<>>)>>
    ELSE LET negative == NumLT0(n)
             mag == MagnitudeBytes(IF negative THEN NumNeg(n) ELSE n)
             top == mag[Len(mag)]
             payload ==
                 IF top >= 128 THEN Append(mag, IF negative THEN 128 ELSE 0)
                 ELSE IF negative THEN [mag EXCEPT ![Len(mag)] = top + 128]
                 ELSE mag
         IN  <<Chunk(Len(payload), payload)>>

\* C2: encodeBlockHeight produces the canonical minimal representation of
\* every integer n, those of magnitude 2^31 and more included: the height
\* chunk of every script built by lock() is the canonical encoding.
C2_CanonicalEveryInteger ==
    origin.kind = "lock" =>
        script = fromHex(LOCK_PREFIX)
                 \o <<Chunk(20, fromBase58Check(origin.address))>>
                 \o CanonicalEncoding(origin.until)
                 \o fromHex(LOCK_SUFFIX)

\* C2, the part the code keeps: the encoding is canonical for |n| <= 2^31 - 1
C2_CanonicalWithin31Bits ==
    (origin.kind = "lock" /\ InRange31(origin.until)) =>
        encodeBlockHeight(origin.until) = CanonicalEncoding(origin.until)

\* C9: Lock.decode succeeds exactly on the scripts isLock accepts: it throws
\* 'Script is not a valid Lock script' for every script whose bytes do not
\* both start with the prefix and end with the suffix, and returns a result
\* for every script whose bytes do.
C9_DecodeThrowsIffNotLock ==
    LET hex == toHex(script)
        accepted == StartsWith(hex, LOCK_PREFIX) /\ EndsWith(hex, LOCK_SUFFIX)
    IN  /\ isLockRes.status = "returned" => (isLockRes.value <=> accepted)
        /\ decoded.status # "unset" =>
               IF accepted THEN decoded.status = "returned"
               ELSE decoded = Thrown("Script is not a valid Lock script")

\* C9 happens: a P2PKH script was refused by isLock and by decode
C9_Witness ==
    /\ origin.kind = "hex"
    /\ origin.hex = BytesToHex(P2PKH("1A1zP1eP5QGefi2DMPTfTL5SLmv7DivfNa"))
    /\ isLockRes = Returned(FALSE)
    /\ decoded.status = "thrown"

\* C9 happens on the other side too: a parsed script that holds nothing but
\* the prefix and the suffix was decoded without an error
C9_WitnessAccepted ==
    /\ origin.kind = "hex"
    /\ origin.hex = LOCK_PREFIX \o LOCK_SUFFIX
    /\ isLockRes = Returned(TRUE)
    /\ decoded.status = "returned"

\* C10: for every script Lock.decode accepts, the returned pkh is exactly 20
\* bytes long and is the hash field that follows the prefix (the 20 bytes
\* after the prefix and the push opcode, all of them before the suffix), and
\* the height is decoded only from the bytes between that field and the suffix.
C10_PkhIsTwentyByteField ==
    decoded.status = "returned" =>
        LET bytes == toBinary(script)
            pre == Len(LOCK_PREFIX) \div 2
            suf == Len(LOCK_SUFFIX) \div 2
        IN  /\ Len(decoded.pkh) = 20
            /\ Len(bytes) >= pre + 1 + 20 + suf
            /\ decoded.pkh = SubSeq(bytes, pre + 2, pre + 21)
            /\ decoded.until =
                   decodeBlockHeight(BytesToHex(SubSeq(bytes, pre + 22, Len(bytes) - suf)))

----------------------------------------------------------------------------
(* Properties of the Sigma codec                                           *)

\* the segments of the list at hand that Sigma.decode can read: the label is
\* SIGMA and the payload parses into at least four sub-fields
Readable ==
    {i \in 1..Len(protocols) :
        /\ protocols[i].protocol = SIGMA_PREFIX
        /\ protocols[i].script # NotBinary
        /\ Len(fromBinary(protocols[i].script)) >= 4}

\* C6: for every list of protocol segments Sigma.decode returns, without an
\* exception, exactly one record for each segment whose label is SIGMA and
\* whose payload has at least 4 sub-fields, in segment order, with bitcomIndex
\* the index of the segment; every other segment is skipped and stops nothing.
C6_DecodeSkipsBadSegments ==
    sigmas.status # "unset" =>
        /\ sigmas.status = "returned"
        /\ Len(sigmas.list) = Cardinality(Readable)
        /\ {sigmas.list[j].bitcomIndex : j \in 1..Len(sigmas.list)}
               = {<<i - 1>> : i \in Readable}
        /\ \A j \in 1..Len(sigmas.list) : \A k \in 1..Len(sigmas.list) :
               j < k => sigmas.list[j].bitcomIndex[1] < sigmas.list[k].bitcomIndex[1]

\* C6 happens: a SIGMA segment of three sub-fields came before a well-formed
\* one, and the record of the second was returned
C6_Witness ==
    /\ sargs.kind = "list"
    /\ Len(protocols) = 2
    /\ protocols[1].protocol = SIGMA_PREFIX
    /\ protocols[1].script # NotBinary
    /\ Len(fromBinary(protocols[1].script)) = 3
    /\ sigmas.status = "returned"
    /\ Len(sigmas.list) = 1
    /\ sigmas.list[1].bitcomIndex = <<1>>
    /\ sigmas.list[1].algorithm = BSM

\* C7: decoding the segment written by Sigma.lock() for a record yields
\* exactly one record with the same algorithm, address, signature bytes and
\* vin, and with valid unset whatever the valid flag of the record was.
C7_LockDecodeRoundTrip ==
    (sargs.kind = "record" /\ sigmas.status # "unset") =>
        /\ sigmas.status = "returned"
        /\ Len(sigmas.list) = 1
        /\ sigmas.list[1].algorithm = sargs.data.algorithm
        /\ sigmas.list[1].address = sargs.data.address
        /\ sigmas.list[1].signature = sargs.data.signature
        /\ sigmas.list[1].vin = sargs.data.vin
        /\ sigmas.list[1].valid = "undefined"

\* C7 happens: a record with an 80-byte signature, vin 2147483647 and valid
\* true was written and read back
C7_Witness ==
    /\ sargs.kind = "record"
    /\ sargs.data.valid = "true"
    /\ Len(sargs.data.signature) = 80
    /\ sargs.data.vin = NumOfInt(2147483647)
    /\ written = <<sargs.data>>
    /\ sigmas.status = "returned"
    /\ Len(sigmas.list) = 1
    /\ sigmas.list[1].valid = "undefined"

\* C8: every record Sigma.decode returns with the algorithm BSM has signature
\* bytes of exactly 65 bytes, for every list of segments.
C8_DecodedBSMSignatureIs65Bytes ==
    \A j \in 1..Len(sigmas.list) :
        sigmas.list[j].algorithm = BSM => Len(sigmas.list[j].signature) = 65

----------------------------------------------------------------------------
(* Properties of the Sigma verifier                                        *)

\* the message of the latest call of verifyWithHashes
CallMessage == lastCall.inputHash \o lastCall.dataHash

\* the signature of the record parses as a compact signature
Parses == fromCompact(toBase64(rec[1].signature)).kind = "sig"

\* candidate j yields a public key that verifies the signature of the record
\* over the message of the latest call and whose address is the record's
CandidateValid(j) ==
    LET c == fromCompact(toBase64(rec[1].signature))
        sig == [r |-> c.r, s |-> c.s]
        publicKey == RecoverPublicKey(sig, j, magicHash(CallMessage))
    IN  /\ publicKey.kind = "key"
        /\ BSM_verify(CallMessage, sig, publicKey.key, j) = "true"
        /\ toAddress(publicKey.key) = rec[1].address

\* C3: for a BSM record whose signature parses as a compact signature,
\* verifyWithHashes returns true if and only if at least one recovery
\* candidate in 0..3 yields a key that verifies the signature over
\* inputHash ++ dataHash and whose address is the record's; a candidate that
\* throws is skipped, and false is returned only after all four were tried.
C3_TrueIffSomeCandidate ==
    (lastCall.made /\ rec[1].algorithm = BSM /\ Parses) =>
        /\ lastCall.result \in {"true", "false"}
        /\ lastCall.result = "true" <=> \E j \in 0..3 : CandidateValid(j)
        /\ lastCall.result = "false" => lastCall.tried = 4

\* C3 happens: recovery threw for candidate 0, candidate 1 gave a key of
\* another address, candidate 2 a key that does not verify, and candidate 3
\* made the call return true
C3_Witness ==
    /\ lastCall.made
    /\ rec[1].algorithm = BSM
    /\ Parses
    /\ curve[0] = Throws
    /\ curve[1] = Recovers("k2", "true")
    /\ curve[2] = Recovers("k1", "false")
    /\ curve[3] = Recovers("k1", "true")
    /\ ~CandidateValid(0) /\ ~CandidateValid(1) /\ ~CandidateValid(2)
    /\ lastCall.result = "true"
    /\ lastCall.tried = 4

\* C4: verifyWithHashes never raises an exception, for any record, hashes and
\* recipient key, for both algorithms, with malformed signature bytes and
\* with collaborators that throw: it returns a boolean, and whenever it
\* returns false the valid flag of the record is false.
C4_NeverThrows ==
    lastCall.made =>
        /\ lastCall.result \in {"true", "false"}
        /\ lastCall.result = "false" => rec[1].valid = "false"

\* C4 happens: a BSM record with three signature bytes was verified
C4_Witness ==
    /\ lastCall.made
    /\ rec[1].algorithm = BSM
    /\ rec[1].signature = <<1, 2, 3>>
    /\ lastCall.result = "false"
    /\ rec[1].valid = "false"

\* C5: the record Sigma.sign returns for a key and a pair of hashes, verified
\* with verifyWithHashes against the same hashes (and, for a BRC-77 signature
\* made for a verifier, with that verifier's key), returns true and leaves
\* the valid flag true.
C5_SignThenVerify ==
    (/\ vargs.kind = "sign"
     /\ lastCall.made
     /\ lastCall.inputHash = vargs.inputHash
     /\ lastCall.dataHash = vargs.dataHash
     /\ (vargs.options.algorithm = BRC77 /\ vargs.options.verifier # "")
            => lastCall.recipientPrivateKey = vargs.options.verifier) =>
        /\ lastCall.result = "true"
        /\ rec[1].valid = "true"

\* C5 happens: key k2 signed two different hashes with BSM, the nonce gave
\* recovery factor 2, and the record was verified against the same hashes
C5_Witness ==
    /\ vargs.kind = "sign"
    /\ vargs.options.algorithm = BSM
    /\ vargs.privateKey = "k2"
    /\ vargs.inputHash # vargs.dataHash
    /\ rec # <<>>
    /\ Owner(fromCompact(toBase64(rec[1].signature))).f = 2
    /\ lastCall.made
    /\ lastCall.inputHash = vargs.inputHash
    /\ lastCall.dataHash = vargs.dataHash
    /\ lastCall.result = "true"
    /\ rec[1].valid = "true"

----------------------------------------------------------------------------
(* Properties of the signer of Lock.unlock                                 *)

\* the input the signer is called for, optional
SignedInput ==
    IF uargs.inputIndex < Len(uargs.tx.inputs)
    THEN <<uargs.tx.inputs[uargs.inputIndex + 1]>>
    ELSE <<>>

\* the unlocking script is two pushes: a DER signature with the sighash byte
\* of the scope, then the 33-byte compressed public key
TwoPushes ==
    /\ unlockRes.status = "returned"
    /\ Len(unlockRes.chunks) = 2
    /\ LET sig == unlockRes.chunks[1]
           key == unlockRes.chunks[2]
       IN  /\ sig.op = Len(sig.data)
           /\ Len(sig.data) >= 9 /\ Len(sig.data) <= 73
           /\ sig.data[1] = 48
           /\ sig.data[2] = Len(sig.data) - 3
           /\ sig.data[Len(sig.data)] = signatureScope(uargs.signOutputs, uargs.anyoneCanPay)
           /\ key.op = 33
           /\ Len(key.data) = 33
           /\ key.data[1] \in {2, 3}

\* C11: for every transaction and input index the signer of Lock.unlock
\* throws, before any signature is made, exactly when the input has neither
\* a sourceTXID nor a sourceTransaction, and otherwise returns an unlocking
\* script of exactly two pushes, the signature with its sighash byte and the
\* 33-byte compressed public key, whatever lock-time and sequence number are.
C11_ThrowsIffNoSource ==
    unlockRes.status # "unset" =>
        IF \/ SignedInput = <<>>
           \/ /\ SignedInput[1].sourceTXID = <<>>
              /\ SignedInput[1].sourceTransaction = <<>>
        THEN unlockRes.status = "thrown" /\ ~unlockRes.signed
        ELSE TwoPushes

\* C11, what the signer does: it throws exactly when there is no such input,
\* or the sourceTXID of the input is the empty string, or the input has no
\* sourceTXID and no sourceTransaction
C11_ThrowsIffNoSourceId ==
    unlockRes.status # "unset" =>
        IF \/ SignedInput = <<>>
           \/ SignedInput[1].sourceTXID = <<"">>
           \/ /\ SignedInput[1].sourceTXID = <<>>
              /\ SignedInput[1].sourceTransaction = <<>>
        THEN unlockRes.status = "thrown" /\ ~unlockRes.signed
        ELSE TwoPushes

\* the signer returned two pushes for lock-time 0 and sequence 0xffffffff
C11_SignedWhateverLockTime ==
    /\ SignedInput # <<>>
    /\ SignedInput[1].sequence = <<Num(B16 - 1, B16 - 1)>>
    /\ uargs.tx.lockTime = NumOfInt(0)
    /\ TwoPushes

----------------------------------------------------------------------------
(* Properties of the valid flag                                            *)

\* the flag agrees with verify() and with the latest verifyWithHashes, and
\* before any verifyWithHashes it is as decode or sign left it
FlagFollowsCalls ==
    rec # <<>> =>
        /\ checked # "unset" => (checked = "true" <=> rec[1].valid = "true")
        /\ lastCall.made => rec[1].valid = lastCall.result
        /\ (~lastCall.made /\ vargs.kind = "decoded") =>
               rec[1].valid = "undefined" /\ checked # "true"
        /\ (~lastCall.made /\ vargs.kind = "sign") =>
               rec[1].valid = "true" /\ checked # "false"

\* a step changes no field of the record at hand other than valid
OnlyFlagChanges ==
    rec # <<>> => rec' = <<[rec[1] EXCEPT !.valid = rec'[1].valid]>>

\* C12: after any sequence of operations on a record, verify() returns true
\* exactly when the valid flag is true, and the flag equals the return value
\* of the most recent verifyWithHashes; before any such call it is unset for
\* a record made by decode (verify() false) and true for a record made by
\* sign (verify() true); verifyWithHashes changes no field other than valid.
C12_FlagIsLatestVerification == []FlagFollowsCalls /\ [][OnlyFlagChanges]_vars

\* C12 happens: a record made by sign, whose flag was true, was verified
\* against other hashes, and verify() then returned false
C12_Witness ==
    /\ vargs.kind = "sign"
    /\ rec # <<>>
    /\ lastCall.made
    /\ lastCall.inputHash # vargs.inputHash
    /\ lastCall.result = "false"
    /\ rec[1].valid = "false"
    /\ checked = "false"

====
